---- MODULE Spec2Model ----
(***************************************************************************)
(* Model of src/src/trading_logic.py: the TradingBot class (fetch_data,    *)
(* calculate_indicators, generate_signal) and run_trading_strategy.        *)
(*                                                                         *)
(* A float is a sequence: <<>> is NaN (an undefined sample), <<v>> is the  *)
(* finite value v.  A DataFrame is a record [kind, n, tail]: kind is       *)
(* "None" or "frame", n is the number of rows and tail holds the last      *)
(* min(n, 2) rows, the only rows generate_signal reads (iloc[-1] and       *)
(* iloc[-2]).  A row is a function from column names to floats, so that    *)
(* `col in latest` is col \in DOMAIN latest.                               *)
(***************************************************************************)
EXTENDS Integers, Sequences, FiniteSets, TLC

VARIABLES pc, provider, data, ret, report, err, fetches, calcRuns,
          series, idx, fired

vars == <<pc, provider, data, ret, report, err, fetches, calcRuns,
          series, idx, fired>>

(* ------------------------------ bounds --------------------------------- *)
MaxPrice == 2
MaxOsc == 1
SeriesLen == 4

(* --------------------------- configuration ----------------------------- *)
PeriodDays == 3
BarsPerDay == 24
RsiLength == 14
MacdSlow == 26
MacdSignal == 9
SmaLength == 200
RsiOverbought == 70
RsiSellFloor == 50

MaxBars == PeriodDays * BarsPerDay

(* ------------------------------ floats --------------------------------- *)
NaN == <<>>

IsDefined(x) == x # NaN

Gt(a, b) == IsDefined(a) /\ IsDefined(b) /\ a[1] > b[1]
Lt(a, b) == IsDefined(a) /\ IsDefined(b) /\ a[1] < b[1]
Le(a, b) == IsDefined(a) /\ IsDefined(b) /\ a[1] <= b[1]

Finite(S) == {<<v>> : v \in S}

PriceVals == Finite(0..MaxPrice) \cup {NaN}
OscVals == Finite(0..MaxOsc)
RsiVals == Finite({RsiSellFloor, 60, RsiOverbought})

(* ----------------------------- DataFrame ------------------------------- *)
NoneData == [kind |-> "None", n |-> 0, tail |-> <<>>]
EmptyFrame == [kind |-> "frame", n |-> 0, tail |-> <<>>]

Frame(n, tail) == [kind |-> "frame", n |-> n, tail |-> tail]

IsNoneOrEmpty(d) == d.kind = "None" \/ d.n = 0

Bar(ts, close) == [ts |-> <<ts>>, Close |-> close]

\* the frames ticker.history can return: at most MaxBars rows
PreviousBar == Bar(1, <<1>>)
LatestBars == {Bar(ts, c) : ts \in 0..2, c \in PriceVals}

ProviderFrames ==
    {Frame(1, <<b>>) : b \in LatestBars}
    \cup {Frame(n, <<PreviousBar, b>>) : n \in 2..MaxBars, b \in LatestBars}

(* --------------------------- fetch_data -------------------------------- *)
\* fetch_data whose except clause forgets to reset self.data
FetchDataKeepsFrame ==
    /\ pc = "start"
    /\ \E outcome \in {"error", "empty", "ok"} :
         /\ provider' = outcome
         /\ IF outcome = "ok"
              THEN \E f \in ProviderFrames : data' = f
              ELSE data' = EmptyFrame
    /\ fetches' = fetches + 1
    /\ pc' = "fetched"
    /\ UNCHANGED <<ret, report, err, calcRuns, series, idx, fired>>

\* ticker.history raises, returns an empty frame, or returns bars; the
\* except clause turns both failures into self.data = None
FetchData ==
    /\ pc = "start"
    /\ \E outcome \in {"error", "empty", "ok"} :
         /\ provider' = outcome
         /\ IF outcome = "ok"
              THEN \E f \in ProviderFrames : data' = f
              ELSE data' = NoneData
    /\ fetches' = fetches + 1
    /\ pc' = "fetched"
    /\ UNCHANGED <<ret, report, err, calcRuns, series, idx, fired>>

\* run_trading_strategy: "Exiting due to data fetching failure."
ExitOnFetchFailure ==
    /\ pc = "fetched"
    /\ IsNoneOrEmpty(data)
    /\ pc' = "exited"
    /\ UNCHANGED <<provider, data, ret, report, err, fetches, calcRuns,
                   series, idx, fired>>

(* ----------------------- calculate_indicators -------------------------- *)
\* first row position (1-based) at which each column is defined
RsiWarmup == RsiLength + 1
MacdWarmup == MacdSlow
MacdSWarmup == MacdSlow + MacdSignal - 1
SmaWarmup == SmaLength

ColVals(p, warmup, vals) == IF p >= warmup THEN vals ELSE {NaN}

\* pandas_ta appends no column when the series is shorter than the
\* indicator's length (newer releases) or appends an all-NaN column (older
\* releases); a warmed-up column is always appended
Presence(n, warmup) == IF n >= warmup THEN {TRUE} ELSE BOOLEAN

RowVals(p) ==
    [RSI_14 : ColVals(p, RsiWarmup, RsiVals),
     MACD : ColVals(p, MacdWarmup, OscVals),
     MACD_S : ColVals(p, MacdSWarmup, OscVals),
     SMA_200 : ColVals(p, SmaWarmup, Finite(1..MaxPrice))]

NoCols == [c \in {} |-> NaN]

Enrich(row, v, rsiP, macdP, smaP) ==
    row
    @@ (IF rsiP THEN ("RSI_14" :> v.RSI_14) ELSE NoCols)
    @@ (IF macdP THEN ("MACD" :> v.MACD) @@ ("MACD_S" :> v.MACD_S) ELSE NoCols)
    @@ (IF smaP THEN ("SMA_200" :> v.SMA_200) ELSE NoCols)

CalculateIndicators ==
    /\ pc = "fetched"
    /\ ~IsNoneOrEmpty(data)
    /\ \E rsiP \in Presence(data.n, RsiLength),
          macdP \in Presence(data.n, MacdWarmup),
          smaP \in Presence(data.n, SmaWarmup) :
       \E vl \in RowVals(data.n), vp \in RowVals(data.n - 1) :
          data' = Frame(data.n,
                        [i \in 1..Len(data.tail) |->
                           Enrich(data.tail[i],
                                  IF i = Len(data.tail) THEN vl ELSE vp,
                                  rsiP, macdP, smaP)])
    /\ calcRuns' = calcRuns + 1
    /\ pc' = "calculated"
    /\ UNCHANGED <<provider, ret, report, err, fetches, series, idx, fired>>

(* -------------------------- generate_signal ---------------------------- *)
RequiredCols == {"RSI_14", "MACD", "MACD_S", "SMA_200"}

BuyReason == "STRONG BUY: Confirmed Uptrend (Price > SMA_200) + MACD Bullish Cross + Healthy RSI (< 70)."
SellReason == "SELL: Confirmed Downtrend (Price < SMA_200) + MACD Bearish Signal."
HoldReason == "HOLD: Awaiting clearer trend or momentum signal."

IsUptrend(latest) == Gt(latest["Close"], latest["SMA_200"])

\* "currently above" instead of "crossed at this bar"
IsMacdAbove(latest, previous) == Gt(latest["MACD"], latest["MACD_S"])

IsMacdBullishCross(latest, previous) ==
    /\ Gt(latest["MACD"], latest["MACD_S"])
    /\ Le(previous["MACD"], previous["MACD_S"])

IsRsiRising(latest, previous) == Gt(latest["RSI_14"], previous["RSI_14"])

\* overbought bound included
IsRsiSafeInclusive(latest) == Le(latest["RSI_14"], <<RsiOverbought>>)

IsRsiSafe(latest) == Lt(latest["RSI_14"], <<RsiOverbought>>)

BuyCond(latest, previous) ==
    /\ IsUptrend(latest)
    /\ IsMacdBullishCross(latest, previous)
    /\ IsRsiRising(latest, previous)
    /\ IsRsiSafe(latest)

\* RSI floor included
SellCondInclusive(latest) ==
    /\ Lt(latest["Close"], latest["SMA_200"])
    /\ Lt(latest["MACD"], latest["MACD_S"])
    /\ Le(<<RsiSellFloor>>, latest["RSI_14"])

\* any one of the three SELL conditions suffices
SellCondAny(latest) ==
    \/ Lt(latest["Close"], latest["SMA_200"])
    \/ Lt(latest["MACD"], latest["MACD_S"])
    \/ Gt(latest["RSI_14"], <<RsiSellFloor>>)

SellCond(latest) ==
    /\ Lt(latest["Close"], latest["SMA_200"])
    /\ Lt(latest["MACD"], latest["MACD_S"])
    /\ Gt(latest["RSI_14"], <<RsiSellFloor>>)

Returns(v) == [exc |-> "", val |-> v]
Raises(e) == [exc |-> e, val |-> <<>>]

\* the value generate_signal returns on frame d, or the exception it raises
generate_signal(d) ==
    IF IsNoneOrEmpty(d)
      THEN Returns(<<"HOLD", "None">>)
    ELSE IF Len(d.tail) < 2
      THEN Raises("IndexError")
    ELSE LET latest == d.tail[Len(d.tail)]
             previous == d.tail[Len(d.tail) - 1]
         IN IF ~(RequiredCols \subseteq DOMAIN latest)
              THEN Returns(<<"HOLD", "None">>)
            ELSE IF BuyCond(latest, previous)
              THEN Returns(<<"BUY", latest["Close"], BuyReason>>)
            ELSE IF SellCond(latest)
              THEN Returns(<<"SELL", latest["Close"], SellReason>>)
            ELSE Returns(<<"HOLD", latest["Close"], HoldReason>>)

\* signal, price, reason = bot.generate_signal()
GenerateSignal ==
    /\ pc = "calculated"
    /\ LET r == generate_signal(data)
       IN /\ ret' = r.val
          /\ IF r.exc # ""
               THEN err' = r.exc /\ pc' = "crashed"
             ELSE IF Len(r.val) # 3
               THEN err' = "ValueError" /\ pc' = "crashed"
             ELSE err' = err /\ pc' = "decided"
    /\ UNCHANGED <<provider, data, report, fetches, calcRuns, series, idx, fired>>

\* the FINAL ACTION REPORT block
FinalReport ==
    /\ pc = "decided"
    /\ report' = <<[time |-> data.tail[Len(data.tail)]["ts"],
                    price |-> ret[2], signal |-> ret[1], reason |-> ret[3]]>>
    /\ pc' = "reported"
    /\ UNCHANGED <<provider, data, ret, err, fetches, calcRuns, series, idx, fired>>

(* ------------------------- run_trading_strategy ------------------------ *)
Init ==
    /\ pc = "start"
    /\ provider = "pending"
    /\ data = EmptyFrame
    /\ ret = <<>>
    /\ report = <<>>
    /\ err = ""
    /\ fetches = 0
    /\ calcRuns = 0
    /\ series = <<>>
    /\ idx = 0
    /\ fired = {}

Next ==
    \/ FetchData
    \/ ExitOnFetchFailure
    \/ CalculateIndicators
    \/ GenerateSignal
    \/ FinalReport

Spec == Init /\ [][Next]_vars

(* ------------- generate_signal on arbitrary enriched frames ------------ *)
\* frames past every warm-up, all required columns appended; a sample is
\* NaN where a NaN price reached the indicator's window
WarmBars == SmaLength + 1

OrNaN(S) == S \cup {NaN}

LatestRows ==
    [ts : {<<2>>},
     Close : OrNaN(Finite(1..MaxPrice)),
     SMA_200 : OrNaN(Finite(1..MaxPrice)),
     MACD : OrNaN(OscVals),
     MACD_S : OrNaN(OscVals),
     RSI_14 : OrNaN(RsiVals)]

PreviousRows ==
    [ts : {<<1>>},
     Close : {<<1>>},
     SMA_200 : {<<1>>},
     MACD : OrNaN(OscVals),
     MACD_S : OrNaN(OscVals),
     RSI_14 : OrNaN(RsiVals)]

EnrichedFrames ==
    {Frame(WarmBars, <<p, l>>) : p \in PreviousRows, l \in LatestRows}

InitSignal ==
    /\ pc = "calculated"
    /\ provider = "ok"
    /\ data \in EnrichedFrames
    /\ ret = <<>>
    /\ report = <<>>
    /\ err = ""
    /\ fetches = 1
    /\ calcRuns = 1
    /\ series = <<>>
    /\ idx = 0
    /\ fired = {}

NextSignal ==
    \/ GenerateSignal
    \/ FinalReport

SpecSignal == InitSignal /\ [][NextSignal]_vars

(* ------- the crossover condition swept along a series of bars ---------- *)
MacdRows == [MACD : OscVals, MACD_S : OscVals]

\* evaluate is_macd_bullish_cross with bar idx + 1 as latest
CrossStep ==
    /\ pc = "sweep"
    /\ idx < Len(series)
    /\ idx' = idx + 1
    /\ fired' = IF IsMacdBullishCross(series[idx + 1], series[idx])
                  THEN fired \cup {idx + 1}
                  ELSE fired
    /\ UNCHANGED <<pc, provider, data, ret, report, err, fetches, calcRuns,
                   series>>

InitCross ==
    /\ pc = "sweep"
    /\ provider = "ok"
    /\ data = EmptyFrame
    /\ ret = <<>>
    /\ report = <<>>
    /\ err = ""
    /\ fetches = 0
    /\ calcRuns = 0
    /\ series \in [1..SeriesLen -> MacdRows]
    /\ idx = 1
    /\ fired = {}

NextCross == CrossStep

SpecCross == InitCross /\ [][NextCross]_vars

(* ======================= properties of the program ===================== *)
Terminal == {"exited", "crashed", "reported"}
Signalled == {"decided", "reported"}

HasPair == data.kind = "frame" /\ Len(data.tail) = 2
Latest == data.tail[2]
Previous == data.tail[1]

Val(row, col) == row[col][1]

\* every sample the decision rule reads is defined
AllDefined ==
    /\ HasPair
    /\ RequiredCols \subseteq DOMAIN Latest
    /\ \A c \in RequiredCols \cup {"Close"} : IsDefined(Latest[c])
    /\ \A c \in {"MACD", "MACD_S", "RSI_14"} : IsDefined(Previous[c])

BuyRule ==
    /\ Val(Latest, "Close") > Val(Latest, "SMA_200")
    /\ Val(Latest, "MACD") > Val(Latest, "MACD_S")
    /\ Val(Previous, "MACD") <= Val(Previous, "MACD_S")
    /\ Val(Latest, "RSI_14") > Val(Previous, "RSI_14")
    /\ Val(Latest, "RSI_14") < 70

SellRule ==
    /\ Val(Latest, "Close") < Val(Latest, "SMA_200")
    /\ Val(Latest, "MACD") < Val(Latest, "MACD_S")
    /\ Val(Latest, "RSI_14") > 50

\* C1: on a pair with every needed sample defined, generate_signal returns
\* BUY exactly when price is above SMA_200, MACD crossed above its signal
\* line at this bar, and RSI is rising and below 70
C1_BuyIffRule ==
    (pc \in Signalled /\ AllDefined) => (ret[1] = "BUY" <=> BuyRule)

C1_Witness ==
    pc = "decided" /\ AllDefined /\ BuyRule /\ ret[1] = "BUY"

\* C2: on a defined pair that is not a BUY, generate_signal returns SELL
\* exactly when price is below SMA_200, MACD is below its signal line and
\* RSI is above 50, whatever the previous bar; otherwise it returns HOLD
\* with the default reason
C2_SellIffRuleElseHold ==
    (pc \in Signalled /\ AllDefined /\ ~BuyRule) =>
        /\ ret[1] = "SELL" <=> SellRule
        /\ ~SellRule =>
             /\ ret[1] = "HOLD"
             /\ ret[3] = "HOLD: Awaiting clearer trend or momentum signal."

\* a SELL on a bar that is no bearish crossover (MACD was already below)
C2_Witness ==
    /\ pc = "decided" /\ AllDefined /\ SellRule /\ ret[1] = "SELL"
    /\ Val(Previous, "MACD") < Val(Previous, "MACD_S")

\* C10: no pair satisfies the BUY branch condition and the SELL branch
\* condition together, and a pair satisfying the BUY condition yields BUY
C10_BuySellExclusive ==
    (pc \in {"calculated"} \cup Signalled /\ HasPair
        /\ RequiredCols \subseteq DOMAIN Latest) =>
        /\ ~(BuyCond(Latest, Previous) /\ SellCond(Latest))
        /\ (pc \in Signalled /\ BuyCond(Latest, Previous)) => ret[1] = "BUY"

C10_Witness ==
    /\ pc = "reported" /\ HasPair
    /\ BuyCond(Latest, Previous)
    /\ report[1].signal = "BUY"

\* C6: when the provider fails or returns nothing, fetch_data leaves
\* bot.data None, the fetch is not repeated, and the run exits without
\* running calculate_indicators, generate_signal or the final report
C6_FetchFailureIsFatal ==
    provider \in {"error", "empty"} =>
        /\ data = NoneData
        /\ pc \in {"fetched", "exited"}
        /\ fetches = 1
        /\ calcRuns = 0
        /\ ret = <<>>
        /\ report = <<>>
        /\ err = ""

C6_Witness ==
    pc = "exited" /\ provider = "error" /\ data = NoneData

Diff(i) == Val(series[i], "MACD") - Val(series[i], "MACD_S")

CrossesOnceAfter(k) ==
    /\ \A i \in 1..k : Diff(i) <= 0
    /\ \A i \in (k + 1)..Len(series) : Diff(i) > 0

\* C8: on a series whose MACD - MACD_S is negative or zero up to some bar
\* and positive on every later bar, the crossover condition holds at the
\* first positive bar and at no other bar
C8_CrossoverFiresOnce ==
    (pc = "sweep" /\ idx = Len(series)) =>
        \A k \in 1..(Len(series) - 1) :
            CrossesOnceAfter(k) => fired = {k + 1}

\* a crossing followed by bars on which MACD stays above the signal line
C8_Witness ==
    /\ pc = "sweep" /\ idx = Len(series)
    /\ \E k \in 1..(Len(series) - 2) : CrossesOnceAfter(k) /\ fired = {k + 1}

WellFormed ==
    /\ HasPair
    /\ Previous["ts"][1] < Latest["ts"][1]
    /\ \A i \in 1..2 : IsDefined(data.tail[i]["Close"])
                        /\ Val(data.tail[i], "Close") > 0

LatestLacksIndicator ==
    \E c \in RequiredCols : c \notin DOMAIN Latest \/ ~IsDefined(Latest[c])

\* C3: a run on two or more well-formed bars whose latest bar lacks a
\* defined RSI_14, MACD, MACD_S or SMA_200 ends with a reported HOLD whose
\* reason is "insufficient indicator history"
C3_WarmupHoldReason ==
    (pc \in Terminal /\ provider = "ok" /\ data.n >= 2 /\ WellFormed
        /\ LatestLacksIndicator) =>
        /\ pc = "reported"
        /\ report[1].signal = "HOLD"
        /\ report[1].reason = "insufficient indicator history"

\* C4: a successful fetch holds at least 200 bars
C4_LookbackCoversSma200 ==
    (provider = "ok" /\ pc # "start") => data.n >= 200

\* C5: a run on exactly one bar ends in a reported "insufficient data"
\* failure, with no value returned by generate_signal and no final report
C5_OneBarInsufficientData ==
    (pc \in Terminal /\ provider = "ok" /\ data.n = 1) =>
        /\ err = "insufficient data"
        /\ ret = <<>>
        /\ report = <<>>

Malformed ==
    /\ provider = "ok" /\ HasPair
    /\ \/ Previous["ts"][1] >= Latest["ts"][1]
       \/ \E i \in 1..2 : \/ ~IsDefined(data.tail[i]["Close"])
                          \/ Val(data.tail[i], "Close") <= 0

\* C7: on a malformed series calculate_indicators never runs and no
\* Decision is returned or reported
C7_MalformedRejected ==
    Malformed => (calcRuns = 0 /\ ret = <<>> /\ report = <<>>)

\* C9: on two or more fetched bars generate_signal returns three
\* components on every path and the run reaches the final report
C9_DecisionHasThreeParts ==
    (provider = "ok" /\ data.n >= 2 /\ pc \in {"crashed"} \cup Signalled) =>
        (Len(ret) = 3 /\ err = "")

====
